---- MODULE Spec2Model ----
(***************************************************************************)
(* Model of stock.py, the Stock Market Simulator.                          *)
(*                                                                         *)
(* Numbers.  Prices and balances are decimal values with PRECISION = 1     *)
(* fractional digit; the model holds them as integers counting tenths      *)
(* (price 100.0 is 1000).  A fee percentage is held in tenths of a percent *)
(* (0.1% is 1).  actual_price() has four fractional digits and is held in  *)
(* units of 1/10000.  Arithmetic is exact decimal arithmetic: the binary   *)
(* representation error of Python floats is not modelled, with one         *)
(* exception.  round(x, 1) of a value that lies exactly halfway between    *)
(* two tenths returns whichever neighbour the binary float of x is closer  *)
(* to (round(0.05, 1) is 0.1, round(0.15, 1) is 0.1); the model leaves     *)
(* that direction open (parameter `above`).                                *)
(*                                                                         *)
(* The interpreter is taken to be Python 3.12 or later, where int has      *)
(* is_integer(), so the second assertion of Stock.purchase passes.         *)
(* Inputs typed at the prompts are integers (int() of anything else ends   *)
(* the program with ValueError and is not modelled).                       *)
(***************************************************************************)
EXTENDS Integers, Sequences, FiniteSets, TLC

VARIABLES stock_list, MONEY, fault, last, prev, commands

vars == <<stock_list, MONEY, fault, last, prev, commands>>

(***************************************************************************)
(* Program constants                                                       *)
(***************************************************************************)
\* PRECISION = 1
PRECISION == 1
\* STOCK_TRADE_FEE_PERCENTAGE = 0.1, in tenths of a percent
STOCK_TRADE_FEE_PERCENTAGE == 1
\* MONEY = 1000 at start, in tenths
DefaultMoney == 10000
\* random.randint(1, 10000)
DrawMax == 10000

(***************************************************************************)
(* Bounds of the model                                                     *)
(***************************************************************************)
\* STOCK_COUNT, set from the command line (default 10)
StockCount == 2
\* commands accepted by the command loop in one run
MaxCommands == 2
\* largest amount typed at a BUY / SELL prompt
MaxAmount == 4
\* days simulated by the price walk
MaxDays == 8
\* calls made in one run of the function-level specification
MaxCalls == 2
\* largest window passed to get_average_price
MaxWindow == 3

\* creation prices sampled from round(uniform(10, uniform(100, 200)), 1)
InitPrices == {128, 500, 2000}
\* the creation prices sampled in the game
GamePrices == {500, 2000}
\* amounts typed at the prompts: a sale, nothing, one unit, many units
Amounts == {0 - MaxAmount, 0, 1, MaxAmount}
\* stock indexes typed at the prompts: -count and count + 1 are outside the
\* list, 0 is taken by Python as the last stock, 1 is the first stock
Indexes == {0 - StockCount, 0, 1, StockCount + 1}
\* faces of the two dice sampled by pseudo_norm: a single draw
DiceFaces == {1}
\* draws sampled from 1..10000: the least, the centre, the greatest
DrawLevels == {1, DrawMax \div 2, DrawMax}

NoFault == "none"
NoCall == [op |-> "none"]

(***************************************************************************)
(* Arithmetic helpers                                                      *)
(***************************************************************************)
\* round(num / den, 0) for den > 0; `above` decides an exact tie
round(num, den, above) ==
    LET fl == num \div den
        r  == num - fl * den
    IN  IF 2 * r < den THEN fl
        ELSE IF 2 * r > den THEN fl + 1
        ELSE IF above THEN fl + 1 ELSE fl

\* int(num / den) for den > 0: truncation toward zero
int(num, den) ==
    IF num >= 0 THEN num \div den ELSE 0 - ((0 - num) \div den)

RECURSIVE SumSeq(_)
SumSeq(s) == IF s = <<>> THEN 0 ELSE Head(s) + SumSeq(Tail(s))

\* the slice taken without reversing the list: the oldest entries
RecentSlice_oldest(s, n) ==
    LET len  == Len(s)
        stop == IF n >= 0 THEN (IF n > len THEN len ELSE n)
                ELSE (IF len + n > 0 THEN len + n ELSE 0)
    IN  [k \in 1..stop |-> s[k]]

\* s[::-1][0:n] as Python slices it, for any integer n
RecentSlice(s, n) ==
    LET len  == Len(s)
        stop == IF n >= 0 THEN (IF n > len THEN len ELSE n)
                ELSE (IF len + n > 0 THEN len + n ELSE 0)
    IN  [k \in 1..stop |-> s[len + 1 - k]]

(***************************************************************************)
(* pseudo_norm: the possible (sum of draws, number of draws) pairs         *)
(***************************************************************************)
pseudo_norm ==
    {[values |-> (d1 * d2) * v, count |-> d1 * d2] :
        d1 \in DiceFaces, d2 \in DiceFaces, v \in DrawLevels}

(***************************************************************************)
(* class Stock                                                             *)
(***************************************************************************)
\* Stock.__init__ with the drawn price
NewStock(order, price) ==
    [price |-> price, inventory |-> 0, history |-> <<price>>, index |-> order]

\* actual_price without the trading fee
actual_price_no_fee(self, amount) ==
    amount * self.price * 1000

\* actual_price with the fee percentage divided by 10 instead of 100
actual_price_per_ten(self, amount) ==
    amount * self.price * (1000 + 10 * STOCK_TRADE_FEE_PERCENTAGE)

\* Stock.actual_price, in units of 1/10000
actual_price(self, amount) ==
    amount * self.price * (1000 + STOCK_TRADE_FEE_PERCENTAGE)

\* Stock.purchase_test
purchase_test(self, amount, balance) ==
    IF amount < 0
    THEN self.inventory >= 0 - amount
    ELSE balance * 1000 - actual_price(self, amount) >= 0

\* Stock.sell_test
sell_test(self, amount, balance) == purchase_test(self, amount, balance)

\* the fee with the sign changed for a buy instead of a sale
fee_cost_sign_on_buy(self, amount, trading_fees_percentage, above) ==
    LET pct == IF amount > 0 THEN 0 - trading_fees_percentage
               ELSE trading_fees_percentage
    IN  round(amount * self.price * pct, 1000, above)

\* the fee without the change of sign for a sale
fee_cost_unsigned(self, amount, trading_fees_percentage, above) ==
    round(amount * self.price * trading_fees_percentage, 1000, above)

\* the fee of Stock.purchase, in tenths
fee_cost(self, amount, trading_fees_percentage, above) ==
    LET pct == IF amount < 0 THEN 0 - trading_fees_percentage
               ELSE trading_fees_percentage
    IN  round(amount * self.price * pct, 1000, above)

\* purchase that also records the price in the history
purchase_logs_history(self, amount, balance, trading_fees_percentage, above) ==
    IF amount = 0
    THEN [fault |-> "AssertionError: Amount cannot be 0!",
          self |-> self, balance |-> balance, fee_cost |-> 0]
    ELSE LET fee == fee_cost(self, amount, trading_fees_percentage, above)
         IN  [fault |-> NoFault,
              self |-> [self EXCEPT !.inventory = @ + amount,
                                    !.history = Append(@, self.price)],
              balance |-> balance - amount * self.price - fee,
              fee_cost |-> fee]

\* purchase that leaves the fee out of the returned balance
purchase_fee_kept(self, amount, balance, trading_fees_percentage, above) ==
    IF amount = 0
    THEN [fault |-> "AssertionError: Amount cannot be 0!",
          self |-> self, balance |-> balance, fee_cost |-> 0]
    ELSE LET fee == fee_cost(self, amount, trading_fees_percentage, above)
         IN  [fault |-> NoFault,
              self |-> [self EXCEPT !.inventory = @ + amount],
              balance |-> balance - amount * self.price,
              fee_cost |-> fee]

\* Stock.purchase: the stock after, the returned pair, or the assertion
purchase(self, amount, balance, trading_fees_percentage, above) ==
    IF amount = 0
    THEN [fault |-> "AssertionError: Amount cannot be 0!",
          self |-> self, balance |-> balance, fee_cost |-> 0]
    ELSE LET fee == fee_cost(self, amount, trading_fees_percentage, above)
         IN  [fault |-> NoFault,
              self |-> [self EXCEPT !.inventory = @ + amount],
              balance |-> balance - amount * self.price - fee,
              fee_cost |-> fee]

\* Stock.get_affordance
get_affordance(self, balance) ==
    int(balance * 1000, actual_price(self, 1))

\* update_stock_history that puts the newest price first
update_stock_history_front(self) ==
    [self EXCEPT !.history = <<self.price>> \o @]

\* Stock.update_stock_history
update_stock_history(self) ==
    [self EXCEPT !.history = Append(@, self.price)]

\* the movement of Stock.next_day with pseudo_norm() = pn.values / pn.count,
\* price * (values / count - 5000) / 10000 in tenths, as whole + num / den.
\* The product price * (values - 5000 * count) is taken in two parts,
\* price = hi * 10000 + lo, only to stay inside the 32-bit integers of the
\* model checker.
movement(price, pn) ==
    LET m  == pn.values - 5000 * pn.count
        hi == price \div 10000
        lo == price % 10000
    IN  [whole |-> (hi * m) \div pn.count,
         num   |-> ((hi * m) % pn.count) * 10000 + lo * m,
         den   |-> 10000 * pn.count]

\* whether round() in next_day meets an exact tie
day_tie(price, pn) ==
    LET mv == movement(price, pn)
    IN  2 * (mv.num % mv.den) = mv.den

\* next_day with the movement twice as wide (divided by 5000, not 10000)
next_price_full_swing(price, pn, above) ==
    LET mv == movement(price, pn)
    IN  price + 2 * mv.whole + round(2 * mv.num, mv.den, above)

\* the price after Stock.next_day:
\* price + round(price * (pseudo_norm() - 5000) / 10000, 1)
next_price(price, pn, above) ==
    LET mv == movement(price, pn)
    IN  price + mv.whole + round(mv.num, mv.den, above)

\* Stock.next_day
next_day(self, pn, above) ==
    LET moved == [self EXCEPT !.price = next_price(self.price, pn, above)]
    IN  IF moved.price > 0
        THEN [fault |-> NoFault, self |-> update_stock_history(moved)]
        ELSE [fault |-> "AssertionError: Stock price cannot be negative!",
              self |-> moved]

\* Stock.get_average_price
get_average_price(self, days, above) ==
    LET d == IF days > Len(self.history) THEN Len(self.history) ELSE days
        total == SumSeq(RecentSlice(self.history, d))
    IN  IF d = 0
        THEN [fault |-> "ZeroDivisionError", value |-> 0]
        ELSE [fault |-> NoFault,
              value |-> IF d > 0 THEN round(total, d, above)
                        ELSE round(0 - total, 0 - d, above)]

\* Stock.get_price_change; percent is in tenths of a percent
get_price_change(self, above) ==
    LET n == Len(self.history)
    IN  IF n < 2
        THEN [fault |-> NoFault, change |-> 0, percent |-> 0]
        ELSE LET change == self.history[n] - self.history[n - 1]
                 before == self.history[n - 1]
             IN  IF ~(change < before)
                 THEN [fault |-> "AssertionError: Percentage change cannot be greater than 1!",
                       change |-> 0, percent |-> 0]
                 ELSE IF ~(change > 0 - before)
                 THEN [fault |-> "AssertionError: Percentage change cannot be less than -1!",
                       change |-> 0, percent |-> 0]
                 ELSE [fault |-> NoFault, change |-> change,
                       percent |-> round(change * 1000, before, above)]

(***************************************************************************)
(* Module level: the game and its command loop                             *)
(***************************************************************************)
\* the record kept of the latest command or call (`last`) and its result
Call(op, index, amount, balance, pct, result, ret) ==
    [op |-> op, index |-> index, amount |-> amount, balance |-> balance,
     pct |-> pct, result |-> result, ret |-> ret]

\* stock_list[k - 1] as Python indexes a list: 0 when it raises IndexError,
\* otherwise the 1-based position of the element
list_position(k, n) ==
    LET idx == k - 1
    IN  IF idx >= 0 /\ idx < n THEN idx + 1
        ELSE IF idx < 0 /\ idx >= 0 - n THEN n + idx + 1
        ELSE 0

\* whether round() in fee_cost meets an exact tie
fee_tie(self, amount, pct) ==
    2 * ((amount * self.price * pct) % 1000) = 1000

\* display_stock_information_table changes no state; of the calls it makes
\* only get_price_change can raise (get_average_price is called with 5 days
\* and get_affordance divides by a positive price), and the first assertion
\* that fails ends the program
RECURSIVE display_fault(_, _)
display_fault(list, i) ==
    IF i > Len(list) THEN NoFault
    ELSE LET _a == get_price_change(list[i], TRUE)
         IN  IF _a.fault # NoFault THEN _a.fault
             ELSE display_fault(list, i + 1)

display_stock_information_table(list, balance) ==
    [fault |-> display_fault(list, 1),
     rows |-> [i \in 1..Len(list) |->
                  <<list[i].index, list[i].price, list[i].inventory,
                    get_affordance(list[i], balance)>>]]

\* for stocks in stock_list: stocks.next_day()
RECURSIVE next_day_loop(_, _, _, _)
next_day_loop(list, i, pns, aboves) ==
    IF i > Len(list) THEN [fault |-> NoFault, list |-> list]
    ELSE LET r == next_day(list[i], pns[i], aboves[i])
             moved == [list EXCEPT ![i] = r.self]
         IN  IF r.fault # NoFault THEN [fault |-> r.fault, list |-> moved]
             ELSE next_day_loop(moved, i + 1, pns, aboves)

Init ==
    /\ \E prices \in [1..StockCount -> GamePrices] :
          stock_list = [count \in 1..StockCount |-> NewStock(count, prices[count])]
    /\ MONEY = DefaultMoney
    /\ fault = NoFault
    /\ last = NoCall
    /\ prev = NoCall
    /\ commands = 0

Running == fault = NoFault

\* case "BUY" | "B"
Buy(stock_to_buy, amount_to_buy, above) ==
    /\ Running
    /\ commands' = commands + 1
    /\ prev' = prev
    /\ LET pos == list_position(stock_to_buy, Len(stock_list))
       IN  IF pos = 0
           THEN /\ fault' = "IndexError"
                /\ last' = Call("BUY", stock_to_buy, amount_to_buy, MONEY,
                                STOCK_TRADE_FEE_PERCENTAGE, "fault", 0)
                /\ UNCHANGED <<stock_list, MONEY>>
           ELSE IF purchase_test(stock_list[pos], amount_to_buy, MONEY)
           THEN LET r == purchase(stock_list[pos], amount_to_buy, MONEY,
                                  STOCK_TRADE_FEE_PERCENTAGE, above)
                IN  IF r.fault # NoFault
                    THEN /\ fault' = r.fault
                         /\ last' = Call("BUY", stock_to_buy, amount_to_buy, MONEY,
                                         STOCK_TRADE_FEE_PERCENTAGE, "fault", 0)
                         /\ UNCHANGED <<stock_list, MONEY>>
                    ELSE /\ stock_list' = [stock_list EXCEPT ![pos] = r.self]
                         /\ MONEY' = r.balance
                         /\ last' = Call("BUY", stock_to_buy, amount_to_buy, MONEY,
                                         STOCK_TRADE_FEE_PERCENTAGE, "executed",
                                         r.fee_cost)
                         /\ fault' = fault
           ELSE /\ last' = Call("BUY", stock_to_buy, amount_to_buy, MONEY,
                                STOCK_TRADE_FEE_PERCENTAGE, "declined", 0)
                /\ UNCHANGED <<stock_list, MONEY, fault>>

\* case "SELL" | "S"
Sell(stock_to_sell, amount_to_sell, above) ==
    /\ Running
    /\ commands' = commands + 1
    /\ prev' = prev
    /\ LET pos == list_position(stock_to_sell, Len(stock_list))
       IN  IF pos = 0
           THEN /\ fault' = "IndexError"
                /\ last' = Call("SELL", stock_to_sell, amount_to_sell, MONEY,
                                STOCK_TRADE_FEE_PERCENTAGE, "fault", 0)
                /\ UNCHANGED <<stock_list, MONEY>>
           ELSE IF sell_test(stock_list[pos], amount_to_sell, MONEY)
           THEN LET r == purchase(stock_list[pos], 0 - amount_to_sell, MONEY,
                                  STOCK_TRADE_FEE_PERCENTAGE, above)
                IN  IF r.fault # NoFault
                    THEN /\ fault' = r.fault
                         /\ last' = Call("SELL", stock_to_sell, amount_to_sell, MONEY,
                                         STOCK_TRADE_FEE_PERCENTAGE, "fault", 0)
                         /\ UNCHANGED <<stock_list, MONEY>>
                    ELSE /\ stock_list' = [stock_list EXCEPT ![pos] = r.self]
                         /\ MONEY' = r.balance
                         /\ last' = Call("SELL", stock_to_sell, amount_to_sell, MONEY,
                                         STOCK_TRADE_FEE_PERCENTAGE, "executed",
                                         r.fee_cost)
                         /\ fault' = fault
           ELSE /\ last' = Call("SELL", stock_to_sell, amount_to_sell, MONEY,
                                STOCK_TRADE_FEE_PERCENTAGE, "declined", 0)
                /\ UNCHANGED <<stock_list, MONEY, fault>>

\* case "NEXT-DAY" | "ND", then the table of the outer loop
NextDay(pns, aboves) ==
    /\ Running
    /\ \A i \in 1..Len(stock_list) :
          aboves[i] => day_tie(stock_list[i].price, pns[i])
    /\ commands' = commands + 1
    /\ prev' = prev
    /\ LET r == next_day_loop(stock_list, 1, pns, aboves)
       IN  /\ stock_list' = r.list
           /\ fault' = IF r.fault # NoFault THEN r.fault
                       ELSE display_stock_information_table(r.list, MONEY).fault
           /\ last' = Call("NEXT-DAY", 0, 0, MONEY, STOCK_TRADE_FEE_PERCENTAGE,
                           IF fault' = NoFault THEN "executed" ELSE "fault", 0)
    /\ UNCHANGED MONEY

\* case "DISPLAY" | "D"
Display ==
    /\ Running
    /\ commands' = commands + 1
    /\ prev' = prev
    /\ LET t == display_stock_information_table(stock_list, MONEY)
       IN  /\ fault' = t.fault
           /\ last' = Call("DISPLAY", 0, 0, MONEY, STOCK_TRADE_FEE_PERCENTAGE,
                           IF t.fault = NoFault THEN "executed" ELSE "fault",
                           t.rows)
    /\ UNCHANGED <<stock_list, MONEY>>

\* case "INVENTORY" | "INV"
Inventory ==
    /\ Running
    /\ commands' = commands + 1
    /\ prev' = prev
    /\ last' = Call("INVENTORY", 0, 0, MONEY, STOCK_TRADE_FEE_PERCENTAGE,
                    "executed",
                    [i \in 1..Len(stock_list) |-> stock_list[i].inventory])
    /\ UNCHANGED <<stock_list, MONEY, fault>>

\* case "HELP" | "H" and case _
Help ==
    /\ Running
    /\ commands' = commands + 1
    /\ prev' = prev
    /\ last' = Call("HELP", 0, 0, MONEY, STOCK_TRADE_FEE_PERCENTAGE,
                    "executed", 0)
    /\ UNCHANGED <<stock_list, MONEY, fault>>

\* the command loop stops taking commands after MaxCommands of them
Bounded == commands < MaxCommands

Next ==
    \/ \E k \in Indexes, a \in Amounts, above \in BOOLEAN :
          Bounded /\ Buy(k, a, above)
    \/ \E k \in Indexes, a \in Amounts, above \in BOOLEAN :
          Bounded /\ Sell(k, a, above)
    \/ \E pns \in [1..Len(stock_list) -> pseudo_norm],
          aboves \in [1..Len(stock_list) -> BOOLEAN] :
          Bounded /\ NextDay(pns, aboves)
    \/ Bounded /\ Display
    \/ Bounded /\ Inventory
    \/ Bounded /\ Help

Spec == Init /\ [][Next]_vars

(***************************************************************************)
(* The price walk: `python stock.py 1`, NEXT-DAY after NEXT-DAY            *)
(***************************************************************************)
InitWalk ==
    /\ \E price \in InitPrices : stock_list = <<NewStock(1, price)>>
    /\ MONEY = DefaultMoney
    /\ fault = NoFault
    /\ last = NoCall
    /\ prev = NoCall
    /\ commands = 0

NextWalk ==
    \E pns \in [1..Len(stock_list) -> pseudo_norm],
       aboves \in [1..Len(stock_list) -> BOOLEAN] :
       commands < MaxDays /\ NextDay(pns, aboves)

SpecWalk == InitWalk /\ [][NextWalk]_vars

(***************************************************************************)
(* The methods of one Stock called directly, as a test of the class does.  *)
(* MONEY is the balance passed to every call and takes the balance that    *)
(* purchase returns, as the command loop does.                             *)
(***************************************************************************)
\* prices of the instrument under test
ApiPrices == {100, 200, 500, 1000}
\* balances the calls start from, in tenths
ApiBalances == {0 - 6016, 601, 10000, 10010, 15000}
\* amounts passed to purchase_test and purchase
ApiAmounts == ((0 - MaxAmount)..MaxAmount) \cup {10}
\* trading_fees_percentage passed to purchase, in tenths of a percent
ApiFees == {STOCK_TRADE_FEE_PERCENTAGE, 499, 1000}
\* days passed to get_average_price
Windows == (0 - 2)..MaxWindow

\* the record of a direct call: the stock it was made on, and whether the
\* fee met a rounding tie that went upward
ApiCall(op, self, amount, balance, pct, up, result, ret) ==
    [op |-> op, index |-> self.index, amount |-> amount, balance |-> balance,
     pct |-> pct, result |-> result, ret |-> ret,
     price |-> self.price, held |-> self.inventory, up |-> up]

InitApi ==
    /\ \E price \in ApiPrices : stock_list = <<NewStock(1, price)>>
    /\ MONEY \in ApiBalances
    /\ fault = NoFault
    /\ last = NoCall
    /\ prev = NoCall
    /\ commands = 0

ApiStep ==
    /\ Running
    /\ commands < MaxCalls
    /\ commands' = commands + 1
    /\ prev' = last

CallPurchaseTest(amount) ==
    /\ ApiStep
    /\ last' = ApiCall("purchase_test", stock_list[1], amount, MONEY,
                       STOCK_TRADE_FEE_PERCENTAGE, FALSE, "returned",
                       purchase_test(stock_list[1], amount, MONEY))
    /\ UNCHANGED <<stock_list, MONEY, fault>>

CallPurchase(amount, pct, above) ==
    /\ ApiStep
    /\ LET r == purchase(stock_list[1], amount, MONEY, pct, above)
       IN  /\ fault' = r.fault
           /\ stock_list' = [stock_list EXCEPT ![1] = r.self]
           /\ MONEY' = r.balance
           /\ last' = ApiCall("purchase", stock_list[1], amount, MONEY, pct,
                              above /\ fee_tie(stock_list[1], amount, pct),
                              IF r.fault = NoFault THEN "returned" ELSE "fault",
                              <<r.balance, r.fee_cost>>)

CallGetAffordance ==
    /\ ApiStep
    /\ last' = ApiCall("get_affordance", stock_list[1], 0, MONEY,
                       STOCK_TRADE_FEE_PERCENTAGE, FALSE, "returned",
                       get_affordance(stock_list[1], MONEY))
    /\ UNCHANGED <<stock_list, MONEY, fault>>

CallNextDay(pn, above) ==
    /\ ApiStep
    /\ above => day_tie(stock_list[1].price, pn)
    /\ LET r == next_day(stock_list[1], pn, above)
       IN  /\ fault' = r.fault
           /\ stock_list' = [stock_list EXCEPT ![1] = r.self]
           /\ last' = ApiCall("next_day", stock_list[1], 0, MONEY,
                              STOCK_TRADE_FEE_PERCENTAGE, FALSE,
                              IF r.fault = NoFault THEN "returned" ELSE "fault", 0)
    /\ UNCHANGED MONEY

CallGetAveragePrice(days, above) ==
    /\ ApiStep
    /\ LET r == get_average_price(stock_list[1], days, above)
       IN  /\ fault' = r.fault
           /\ last' = ApiCall("get_average_price", stock_list[1], days, MONEY,
                              STOCK_TRADE_FEE_PERCENTAGE, FALSE,
                              IF r.fault = NoFault THEN "returned" ELSE "fault",
                              r.value)
    /\ UNCHANGED <<stock_list, MONEY>>

CallGetPriceChange(above) ==
    /\ ApiStep
    /\ LET r == get_price_change(stock_list[1], above)
       IN  /\ fault' = r.fault
           /\ last' = ApiCall("get_price_change", stock_list[1], 0, MONEY,
                              STOCK_TRADE_FEE_PERCENTAGE, FALSE,
                              IF r.fault = NoFault THEN "returned" ELSE "fault",
                              <<r.change, r.percent>>)
    /\ UNCHANGED <<stock_list, MONEY>>

NextApi ==
    \/ \E a \in ApiAmounts : CallPurchaseTest(a)
    \/ \E a \in ApiAmounts, pct \in ApiFees, above \in BOOLEAN :
          CallPurchase(a, pct, above)
    \/ CallGetAffordance
    \/ \E pn \in pseudo_norm, above \in BOOLEAN : CallNextDay(pn, above)
    \/ \E days \in Windows, above \in BOOLEAN : CallGetAveragePrice(days, above)
    \/ \E above \in BOOLEAN : CallGetPriceChange(above)

SpecApi == InitApi /\ [][NextApi]_vars

(***************************************************************************)
(* Properties                                                              *)
(***************************************************************************)
Abs(x) == IF x < 0 THEN 0 - x ELSE x

Stocks == DOMAIN stock_list

PriceAssertion == "AssertionError: Stock price cannot be negative!"
PercentAssertions ==
    {"AssertionError: Percentage change cannot be greater than 1!",
     "AssertionError: Percentage change cannot be less than -1!"}

\* C1: in every reachable state of the game every instrument's heldUnits
\* (Stock.inventory) is >= 0.
C1_HeldUnitsNonNegative ==
    \A i \in Stocks : stock_list[i].inventory >= 0

\* C2: after every advanceDay, from any creation price and for every value
\* of sampleDailyMovement, price > 0: the assertion of next_day never fails
\* and no recorded price is non-positive.
C2_PricePositive ==
    /\ fault # PriceAssertion
    /\ \A i \in Stocks :
          /\ stock_list[i].price > 0
          /\ \A k \in DOMAIN stock_list[i].history :
                stock_list[i].history[k] > 0

\* a day has been advanced down to the lowest price, 0.1
C2_Witness ==
    /\ last.op = "NEXT-DAY"
    /\ \E i \in Stocks :
          LET h == stock_list[i].history
          IN  Len(h) >= 2 /\ h[Len(h)] = 1 /\ h[Len(h) - 1] = 2
                /\ stock_list[i].price = 1

\* a BUY or SELL request that must be declined: an instrument reference
\* outside 1..count, a zero amount, or insufficient funds / holdings
InvalidRequest(op, k, amount) ==
    \/ k \notin 1..Len(stock_list)
    \/ amount = 0
    \/ /\ k \in 1..Len(stock_list)
       /\ amount > 0
       /\ \/ op = "BUY" /\ MONEY * 1000 < actual_price(stock_list[k], amount)
          \/ op = "SELL" /\ stock_list[k].inventory < amount

\* C3: every invalid BUY or SELL request is declined without a fault and
\* leaves cashBalance and every heldUnits unchanged.
C3_InvalidRequestsDeclined ==
    [][(/\ commands' = commands + 1
        /\ last'.op \in {"BUY", "SELL"}
        /\ InvalidRequest(last'.op, last'.index, last'.amount))
       => (/\ fault' = NoFault
           /\ last'.result = "declined"
           /\ MONEY' = MONEY
           /\ \A i \in Stocks :
                 stock_list'[i].inventory = stock_list[i].inventory)]_vars

\* C4: canTrade (purchase_test) with amount 0 returns false for every
\* instrument state and every cash balance.
C4_ZeroAmountNeverTradable ==
    (last.op = "purchase_test" /\ last.amount = 0) => last.ret = FALSE

\* a purchase of n > 0 units followed at once by the purchase of -n units
\* with the same fee percentage; the same product is rounded the same way
RoundTrip ==
    /\ prev.op = "purchase" /\ prev.result = "returned"
    /\ last.op = "purchase" /\ last.result = "returned"
    /\ prev.amount > 0
    /\ last.amount = 0 - prev.amount
    /\ last.pct = prev.pct
    /\ last.price = prev.price
    /\ last.balance = prev.ret[1]
    /\ last.up = prev.up

ScenarioBuy(c) ==
    /\ c.op = "purchase" /\ c.price = 1000 /\ c.held = 0
    /\ c.amount = 10 /\ c.balance = 15000
    /\ c.pct = STOCK_TRADE_FEE_PERCENTAGE

\* C6: at price 100.0, fee 0.1, heldUnits 0: canTrade(+10) is false with
\* cash 1000; with cash 1500 executeTrade(+10) gives fee 1.0, cash 499.0,
\* held 10; then executeTrade(-4) gives fee 0.4, cash 898.6, held 6; and
\* every executeTrade has heldUnits += units, feeCharged the tenth nearest
\* to |units| * price * feePct / 100, cash = cash - units * price - fee.
C6_TradeScenario ==
    /\ (/\ last.op = "purchase_test" /\ last.price = 1000 /\ last.held = 0
        /\ last.amount = 10 /\ last.balance = 10000)
       => last.ret = FALSE
    /\ ScenarioBuy(last)
       => /\ last.ret = <<4990, 10>>
          /\ stock_list[1].inventory = 10
    /\ (/\ ScenarioBuy(prev)
        /\ last.op = "purchase" /\ last.amount = 0 - 4
        /\ last.pct = STOCK_TRADE_FEE_PERCENTAGE)
       => /\ last.ret = <<8986, 4>>
          /\ stock_list[1].inventory = 6
    /\ (last.op = "purchase" /\ last.result = "returned")
       => /\ stock_list[1].inventory = last.held + last.amount
          /\ 2 * Abs(1000 * last.ret[2]
                     - Abs(last.amount) * last.price * last.pct) <= 1000
          /\ last.ret[1] = last.balance - last.amount * last.price - last.ret[2]

\* the scenario has been played to its end
C6_Witness ==
    /\ ScenarioBuy(prev)
    /\ last.op = "purchase" /\ last.amount = 0 - 4
    /\ last.pct = STOCK_TRADE_FEE_PERCENTAGE
    /\ MONEY = 8986

\* get_affordance has been called at price 100.0 with cash 1001.0
AffordanceCase ==
    last.op = "get_affordance" /\ last.price = 1000 /\ last.balance = 10010

\* C7 as stated: affordableUnits at price 100.0, fee 0.1, cash 1001.0 is 9.
C7_AffordanceIsNine ==
    AffordanceCase => last.ret = 9

\* C7 as amended: affordableUnits at price 100.0, fee 0.1, cash 1001.0 is
\* 10, the ten units costing exactly 1001.0.
C7_AffordanceIsTen ==
    AffordanceCase =>
        /\ last.ret = 10
        /\ actual_price(stock_list[1], 10) = last.balance * 1000

C7_Witness == AffordanceCase /\ fault = NoFault

\* C8: in every reachable state |percentDelta| < 100: neither assertion of
\* get_price_change fails.
C8_PercentDeltaBounded ==
    /\ fault \notin PercentAssertions
    /\ \A i \in Stocks :
          LET h == stock_list[i].history
          IN  Len(h) >= 2 => Abs(h[Len(h)] - h[Len(h) - 1]) < h[Len(h) - 1]

\* C9: averagePrice never fails; a window longer than the history gives the
\* mean of the full history, a window <= 0 gives the most recent price.
C9_AveragePriceNeverFails ==
    last.op = "get_average_price" =>
        LET h == stock_list[1].history
        IN  /\ last.result = "returned"
            /\ fault = NoFault
            /\ last.amount > Len(h)
               => 2 * Abs(last.ret * Len(h) - SumSeq(h)) <= Len(h)
            /\ last.amount <= 0 => last.ret = h[Len(h)]

IsPrefix(s, t) ==
    Len(s) <= Len(t) /\ \A k \in 1..Len(s) : s[k] = t[k]

\* C10: priceHistory is append-only: it starts as the creation price alone,
\* every step leaves the old history a prefix of the new one, NEXT-DAY
\* appends exactly the new price to every history, no other command
\* changes a history, and the last entry is always the current price.
C10_HistoryAppendOnly ==
    /\ [](\A i \in Stocks :
            LET h == stock_list[i].history
            IN  /\ Len(h) >= 1
                /\ h[Len(h)] = stock_list[i].price
                /\ (last.op = "none" => Len(h) = 1))
    /\ [][\A i \in Stocks :
            /\ IsPrefix(stock_list[i].history, stock_list'[i].history)
            /\ IF last'.op = "NEXT-DAY"
               THEN stock_list'[i].history =
                       Append(stock_list[i].history, stock_list'[i].price)
               ELSE stock_list'[i].history = stock_list[i].history]_vars

\* a day was advanced on an instrument the player holds, and the price moved
C10_Witness ==
    /\ last.op = "NEXT-DAY"
    /\ \E i \in Stocks :
          LET h == stock_list[i].history
          IN  Len(h) = 2 /\ h[2] # h[1] /\ stock_list[i].inventory # 0

C12_PriceChange ==
    /\ fault \notin PercentAssertions
    /\ \A i \in Stocks :
          LET h == stock_list[i].history
              r == get_price_change(stock_list[i], FALSE)
          IN  /\ r.fault = NoFault
              /\ Len(h) = 1 => (r.change = 0 /\ r.percent = 0)
              /\ Len(h) >= 2 => r.change = h[Len(h)] - h[Len(h) - 1]

\* what C13 says of one executed trade
FeeIsACost ==
    /\ last.ret[2] >= 0
    /\ last.amount > 0 => last.ret[1] < last.balance
    /\ last.amount < 0 => last.ret[1] > last.balance

\* C13 as stated: for every nonzero units, price > 0 and feePct >= 0 the
\* fee is >= 0, a buy strictly decreases and a sell strictly increases
\* cashBalance.
C13_FeeNeverRebate ==
    (last.op = "purchase" /\ last.result = "returned" /\ last.pct >= 0)
        => FeeIsACost

\* C13 as amended: the same for every feePct with 0 <= feePct < 50.
C13_FeeNeverRebateBelowHalf ==
    (last.op = "purchase" /\ last.result = "returned"
        /\ last.pct >= 0 /\ last.pct < 500)
        => FeeIsACost

\* a sale on which a fee of nearly half the proceeds was charged
C13_Witness ==
    /\ last.op = "purchase" /\ last.result = "returned"
    /\ last.amount < 0 /\ last.pct = 499 /\ last.ret[2] > 0

\* C14: affordableUnits is the maximum purchasable quantity, n >= 1 is
\* tradable exactly when n <= affordableUnits, and affordableUnits is the
\* floor of cashBalance / quoteTotalCost(instrument, 1).
C14_AffordanceIsFloor ==
    last.op = "get_affordance" =>
        LET unit == actual_price(stock_list[1], 1)
            aff  == last.ret
        IN  /\ \A n \in 1..(Abs(aff) + 2) :
                  purchase_test(stock_list[1], n, last.balance) <=> n <= aff
            /\ aff * unit <= last.balance * 1000
            /\ last.balance * 1000 < (aff + 1) * unit

\* the stock a BUY or SELL with this index trades: stock_list[index - 1] as
\* Python evaluates it, or 0 when there is none
Referenced(index) == list_position(index, Len(stock_list))

TestedBuy ==
    /\ prev.op = "purchase_test" /\ prev.amount > 0 /\ prev.ret = TRUE
    /\ last.op = "purchase" /\ last.result = "returned"
    /\ last.amount = prev.amount
    /\ last.balance = prev.balance
    /\ last.price = prev.price
    /\ last.pct = STOCK_TRADE_FEE_PERCENTAGE

C17_CashNonNegative ==
    MONEY >= 0

====
